---- MODULE Spec2Model ----
(***************************************************************************)
(* Model of the in-game clock engine of src/app/page.tsx: the pure         *)
(* functions that turn a saved (ingame_time, ingame_time_saved_at) pair    *)
(* and a real instant into a simulated HH:MM clock and a day phase.        *)
(*                                                                         *)
(* JavaScript numbers are modelled as exact rationals [n, d] (d > 0, in    *)
(* lowest terms).  Every instant is an integer number of milliseconds, so  *)
(* every quantity the code computes is a rational with a small             *)
(* denominator; the phase thresholds and the minute boundaries are only    *)
(* met at multiples of 2500 ms, where the double arithmetic of the code is *)
(* exact, and everywhere else the result is at least 0.0012 simulated      *)
(* minutes away from a boundary.                                           *)
(*                                                                         *)
(* JavaScript strings are sequences of one-character strings.              *)
(***************************************************************************)
EXTENDS Integers, Sequences, FiniteSets, TLC

VARIABLES
    row,                  \* the SpawnTimerRow handed to the engine, or Undefined
    instantMs,            \* the query instant (nowMs / target.getTime()), in ms
    liveClock,            \* result of deriveLiveMinecraftClock(row, instantMs)
    predictedAtSpawn,     \* result of deriveMinecraftClockAtDate(row, instantMs)
    prevInstantMs,        \* the instant of the previous poll, or NotCalled
    prevLiveClock,        \* liveClock of the previous poll
    prevPredictedAtSpawn, \* predictedAtSpawn of the previous poll
    polls,                \* number of times the query instant was advanced
    minutesArg,           \* the argument handed to getMinecraftPhaseFromMinutes
    phaseDetails          \* result of getMinecraftPhaseFromMinutes(minutesArg)

VARIABLES
    browserClient,        \* the module-level client of the client module, or JsNull
    env,                  \* process.env: the two NEXT_PUBLIC_SUPABASE_* variables
    createClientCalls,    \* number of calls of createClient so far
    clientResults         \* what each getSupabaseBrowserClient call did, in order

clientVars == <<browserClient, env, createClientCalls, clientResults>>

VARIABLES
    store,                \* the rows of the remote table spawn_timers
    nextRowId,            \* the id the store gives to the next inserted row
    ui,                   \* the React state of Home
    mounted,              \* "no", "yes" or "gone" (unmounted)
    intervals,            \* the timers each active 100 ms interval was bound to
    fetchIntervals,       \* number of active 60 s fetchTimers intervals
    calls,                \* the invocations that await the remote store
    lastFinished,         \* the invocation that returned last
    started,              \* number of invocations started after the mount
    wallClockMs,          \* the wall clock, in ms
    edits,                \* number of input events so far
    ticks                 \* number of advances of the wall clock so far

homeVars == <<store, nextRowId, ui, mounted, intervals, fetchIntervals, calls,
              lastFinished, started, wallClockMs, edits, ticks>>

pageVars == <<clientVars, homeVars>>

vars == <<row, instantMs, liveClock, predictedAtSpawn, prevInstantMs,
          prevLiveClock, prevPredictedAtSpawn, polls, minutesArg, phaseDetails,
          pageVars>>

----------------------------------------------------------------------------
(* JavaScript values *)

JsNull == [kind |-> "null"]
Undefined == [kind |-> "undefined"]
NotCalled == [kind |-> "notcalled"]
NaN == [kind |-> "NaN"]

Str(chars) == [kind |-> "string", chars |-> chars]
\* an ISO-8601 text that new Date() parses to the instant ms
IsoString(ms) == [kind |-> "iso", ms |-> ms]
Num(n) == [kind |-> "number", n |-> n]

\* !value for a string-or-null field: null, undefined and "" are falsy
Falsy(value) ==
    \/ value.kind = "null"
    \/ value.kind = "undefined"
    \/ (value.kind = "string" /\ value.chars = <<>>)

----------------------------------------------------------------------------
(* Exact arithmetic on JavaScript numbers *)

RECURSIVE GCD(_, _)
GCD(a, b) == IF b = 0 THEN a ELSE GCD(b, a % b)

Abs(x) == IF x < 0 THEN -x ELSE x

\* the rational n/d (d > 0) in lowest terms
Rat(n, d) ==
    LET g == GCD(Abs(n), d)
    IN  [n |-> n \div g, d |-> d \div g]

RInt(k) == [n |-> k, d |-> 1]
RAdd(a, b) == Rat(a.n * b.d + b.n * a.d, a.d * b.d)
RMul(a, b) == Rat(a.n * b.n, a.d * b.d)
RDivInt(a, k) == Rat(a.n, a.d * k)
RLess(a, b) == a.n * b.d < b.n * a.d
RGeq(a, b) == ~RLess(a, b)
RMax(a, b) == IF RLess(a, b) THEN b ELSE a
\* Math.floor
RFloor(a) == a.n \div a.d

\* the JavaScript % on integers: the remainder has the sign of the dividend
JsRemInt(a, k) == IF a >= 0 THEN a % k ELSE -((-a) % k)
\* the JavaScript % of a number by a positive integer
JsRem(a, k) == Rat(JsRemInt(a.n, k * a.d), a.d)

----------------------------------------------------------------------------
(* String helpers of the JavaScript runtime *)

DigitChars == <<"0", "1", "2", "3", "4", "5", "6", "7", "8", "9">>

IsDigit(c) == \E i \in 1..10 : DigitChars[i] = c

DigitValue(c) == (CHOOSE i \in 1..10 : DigitChars[i] = c) - 1

RECURSIVE NatToString(_)
NatToString(n) ==
    IF n < 10 THEN <<DigitChars[n + 1]>>
    ELSE Append(NatToString(n \div 10), DigitChars[(n % 10) + 1])

\* Number.prototype.toString() of an integer
NumberToString(n) == IF n < 0 THEN <<"-">> \o NatToString(-n) ELSE NatToString(n)

RECURSIVE PadStart(_, _, _)
PadStart(s, len, fill) ==
    IF Len(s) >= len THEN s ELSE PadStart(<<fill>> \o s, len, fill)

\* String.prototype.split(":")
RECURSIVE SplitColon(_)
SplitColon(s) ==
    IF \A i \in 1..Len(s) : s[i] # ":" THEN <<s>>
    ELSE LET k == CHOOSE i \in 1..Len(s) :
                      s[i] = ":" /\ \A j \in 1..(i - 1) : s[j] # ":"
         IN  <<SubSeq(s, 1, k - 1)>> \o SplitColon(SubSeq(s, k + 1, Len(s)))

RECURSIVE SkipWhitespace(_)
SkipWhitespace(s) ==
    IF s # <<>> /\ Head(s) = " " THEN SkipWhitespace(Tail(s)) ELSE s

RECURSIVE DigitPrefix(_)
DigitPrefix(s) ==
    IF s # <<>> /\ IsDigit(Head(s)) THEN <<Head(s)>> \o DigitPrefix(Tail(s))
    ELSE <<>>

RECURSIVE DigitsValue(_)
DigitsValue(s) ==
    IF s = <<>> THEN 0
    ELSE 10 * DigitsValue(SubSeq(s, 1, Len(s) - 1)) + DigitValue(s[Len(s)])

\* Number.parseInt(text, 10): leading whitespace, an optional sign, then the
\* longest run of digits; anything after it is ignored; NaN without a digit
ParseInt(chars) ==
    LET t == SkipWhitespace(chars)
        negative == t # <<>> /\ Head(t) = "-"
        signed == t # <<>> /\ Head(t) \in {"-", "+"}
        digits == DigitPrefix(IF signed THEN Tail(t) ELSE t)
    IN  IF digits = <<>> THEN NaN
        ELSE Num(IF negative THEN -DigitsValue(digits) ELSE DigitsValue(digits))

\* new Date(text).getTime()
DateGetTime(value) == IF value.kind = "iso" THEN Num(value.ms) ELSE NaN

----------------------------------------------------------------------------
(* Constants of the clock engine *)

MINECRAFT_CYCLE_SECONDS == 1200
\* mutant: an hour of 60 real seconds
HourOfSixtySeconds == MINECRAFT_CYCLE_SECONDS \div 20
MINECRAFT_HOUR_SECONDS == 50
MINECRAFT_MINUTES_PER_DAY == 24 * 60
\* mutant: the minutes ratio used for seconds
SecondsPerRealSecondAsMinutes == Rat(60, MINECRAFT_HOUR_SECONDS)
MINECRAFT_SECONDS_PER_REAL_SECOND == Rat(60 * 60, MINECRAFT_HOUR_SECONDS)
MINECRAFT_SECONDS_PER_DAY == MINECRAFT_MINUTES_PER_DAY * 60

\* mutant: no padding
formatTwoDigitsUnpadded(value) == NumberToString(value)

\* value.toString().padStart(2, "0")
formatTwoDigits(value) == PadStart(NumberToString(value), 2, "0")

\* `${formatTwoDigits(h)}:${formatTwoDigits(m)}`
ClockText(h, m) == formatTwoDigits(h) \o <<":">> \o formatTwoDigits(m)

\* mutant: a truncating remainder alone, no true modulo
NormalizeMinutesTruncating(minutes) == JsRem(minutes, MINECRAFT_MINUTES_PER_DAY)

\* ((minutes % 1440) + 1440) % 1440
NormalizeMinutes(minutes) ==
    JsRem(RAdd(JsRem(minutes, MINECRAFT_MINUTES_PER_DAY),
               RInt(MINECRAFT_MINUTES_PER_DAY)),
          MINECRAFT_MINUTES_PER_DAY)

\* mutant: a dawn of seven minutes
PhaseOfNormalizedMinutesShortDawn(normalizedMinutes) ==
    IF RGeq(normalizedMinutes, RInt(273)) /\ RLess(normalizedMinutes, RInt(280))
    THEN "Aube"
    ELSE IF RGeq(normalizedMinutes, RInt(280)) /\ RLess(normalizedMinutes, RInt(1057))
    THEN "Jour"
    ELSE IF RGeq(normalizedMinutes, RInt(1057)) /\ RLess(normalizedMinutes, RInt(1188))
    THEN "Crepuscule"
    ELSE "Nuit"

\* mutant: the end of dawn taken inclusive
PhaseOfNormalizedMinutesInclusiveEnd(normalizedMinutes) ==
    IF RGeq(normalizedMinutes, RInt(273)) /\ RGeq(RInt(387), normalizedMinutes)
    THEN "Aube"
    ELSE IF RGeq(normalizedMinutes, RInt(387)) /\ RLess(normalizedMinutes, RInt(1057))
    THEN "Jour"
    ELSE IF RGeq(normalizedMinutes, RInt(1057)) /\ RLess(normalizedMinutes, RInt(1188))
    THEN "Crepuscule"
    ELSE "Nuit"

\* the threshold tests; "Crepuscule" stands for the source's "Crépuscule"
PhaseOfNormalizedMinutes(normalizedMinutes) ==
    IF RGeq(normalizedMinutes, RInt(273)) /\ RLess(normalizedMinutes, RInt(387))
    THEN "Aube"
    ELSE IF RGeq(normalizedMinutes, RInt(387)) /\ RLess(normalizedMinutes, RInt(1057))
    THEN "Jour"
    ELSE IF RGeq(normalizedMinutes, RInt(1057)) /\ RLess(normalizedMinutes, RInt(1188))
    THEN "Crepuscule"
    ELSE "Nuit"

\* mutant: the minute of the label rounded to the nearest instead of floored
getMinecraftPhaseFromMinutesRoundedLabel(minutes) ==
    LET normalizedMinutes == NormalizeMinutes(minutes)
        timeLabel == ClockText(RFloor(RDivInt(normalizedMinutes, 60)),
                               RFloor(RAdd(JsRem(normalizedMinutes, 60), Rat(1, 2))))
    IN  [phase |-> PhaseOfNormalizedMinutes(normalizedMinutes),
         timeLabel |-> timeLabel]

\* minutes is a JavaScript number (a rational); the result is a
\* MinecraftPhaseDetails {phase, timeLabel}
getMinecraftPhaseFromMinutes(minutes) ==
    LET normalizedMinutes == NormalizeMinutes(minutes)
        timeLabel == ClockText(RFloor(RDivInt(normalizedMinutes, 60)),
                               RFloor(JsRem(normalizedMinutes, 60)))
    IN  [phase |-> PhaseOfNormalizedMinutes(normalizedMinutes),
         timeLabel |-> timeLabel]

getPhasePreviewFromMinutes(totalMinutes) == getMinecraftPhaseFromMinutes(totalMinutes)

normalizeMinecraftSeconds(seconds) ==
    JsRem(RAdd(JsRem(seconds, MINECRAFT_SECONDS_PER_DAY),
               RInt(MINECRAFT_SECONDS_PER_DAY)),
          MINECRAFT_SECONDS_PER_DAY)

\* const [hoursPart, minutesPart] = text.split(":"): a missing element is
\* undefined
Destructure(parts, i) == IF Len(parts) >= i THEN Str(parts[i]) ELSE Undefined

\* mutant: the upper limits off by one
OutOfRangeOffByOne(hours, minutes) ==
    \/ hours = NaN
    \/ minutes = NaN
    \/ hours.n < 0
    \/ hours.n > 24
    \/ minutes.n < 0
    \/ minutes.n > 60

\* the range test of the parsed hours and minutes (true: reject)
OutOfRange(hours, minutes) ==
    \/ hours = NaN
    \/ minutes = NaN
    \/ hours.n < 0
    \/ hours.n > 23
    \/ minutes.n < 0
    \/ minutes.n > 59

\* mutant: no clamp to zero
LiveElapsedRealSecondsUnclamped(nowMs, savedAtMs) ==
    RDivInt(RInt(nowMs - savedAtMs), 1000)

\* Math.max(0, (nowMs - savedAtMs) / 1000)
LiveElapsedRealSeconds(nowMs, savedAtMs) ==
    RMax(RInt(0), RDivInt(RInt(nowMs - savedAtMs), 1000))

\* mutant: the minute rounded to nearest instead of truncated
LiveClockTextRounded(normalizedSeconds) ==
    LET currentHours == RFloor(RDivInt(normalizedSeconds, 3600)) % 24
        currentMinutes ==
            RFloor(RAdd(RDivInt(JsRem(normalizedSeconds, 3600), 60), Rat(1, 2)))
    IN  ClockText(currentHours, currentMinutes)

\* currentHours, currentMinutes and the clock text
LiveClockText(normalizedSeconds) ==
    LET currentHours == RFloor(RDivInt(normalizedSeconds, 3600)) % 24
        currentMinutes == RFloor(RDivInt(JsRem(normalizedSeconds, 3600), 60))
    IN  ClockText(currentHours, currentMinutes)

deriveLiveMinecraftClock(r, nowMs) ==
    IF r = Undefined \/ Falsy(r.ingame_time) \/ Falsy(r.ingame_time_saved_at)
    THEN JsNull
    ELSE
    LET savedAtMs == DateGetTime(r.ingame_time_saved_at)
        parts == SplitColon(r.ingame_time.chars)
        hoursPart == Destructure(parts, 1)
        minutesPart == Destructure(parts, 2)
    IN  IF savedAtMs = NaN THEN JsNull
        ELSE IF Falsy(hoursPart) \/ Falsy(minutesPart) THEN JsNull
        ELSE
        LET hours == ParseInt(hoursPart.chars)
            minutes == ParseInt(minutesPart.chars)
        IN  IF OutOfRange(hours, minutes) THEN JsNull
            ELSE
            LET baseSeconds == RInt((hours.n * 60 + minutes.n) * 60)
                elapsedRealSeconds == LiveElapsedRealSeconds(nowMs, savedAtMs.n)
                elapsedMinecraftSeconds ==
                    RMul(elapsedRealSeconds, MINECRAFT_SECONDS_PER_REAL_SECOND)
                totalSeconds == RAdd(baseSeconds, elapsedMinecraftSeconds)
                normalizedSeconds == normalizeMinecraftSeconds(totalSeconds)
                clock == LiveClockText(normalizedSeconds)
                phase == getPhasePreviewFromMinutes(RDivInt(normalizedSeconds, 60))
            IN  [clock |-> clock, phaseDetails |-> phase]

\* Math.max(0, (target.getTime() - savedAtMs) / 1000)
AtDateElapsedRealSeconds(targetMs, savedAtMs) ==
    RMax(RInt(0), RDivInt(RInt(targetMs - savedAtMs), 1000))

\* mutant: the seconds ratio used for minutes
AtDateElapsedMinecraftMinutesAsSeconds(elapsedRealSeconds) ==
    RMul(elapsedRealSeconds, MINECRAFT_SECONDS_PER_REAL_SECOND)

\* elapsedRealSeconds * (60 / MINECRAFT_HOUR_SECONDS)
AtDateElapsedMinecraftMinutes(elapsedRealSeconds) ==
    RMul(elapsedRealSeconds, Rat(60, MINECRAFT_HOUR_SECONDS))

deriveMinecraftClockAtDate(r, targetMs) ==
    IF r = Undefined \/ Falsy(r.ingame_time) \/ Falsy(r.ingame_time_saved_at)
    THEN JsNull
    ELSE
    LET savedAtMs == DateGetTime(r.ingame_time_saved_at)
        parts == SplitColon(r.ingame_time.chars)
        hoursPart == Destructure(parts, 1)
        minutesPart == Destructure(parts, 2)
    IN  IF savedAtMs = NaN THEN JsNull
        ELSE IF Falsy(hoursPart) \/ Falsy(minutesPart) THEN JsNull
        ELSE
        LET hours == ParseInt(hoursPart.chars)
            minutes == ParseInt(minutesPart.chars)
        IN  IF OutOfRange(hours, minutes) THEN JsNull
            ELSE
            LET baseMinutes == RInt(hours.n * 60 + minutes.n)
                elapsedRealSeconds == AtDateElapsedRealSeconds(targetMs, savedAtMs.n)
                elapsedMinecraftMinutes ==
                    AtDateElapsedMinecraftMinutes(elapsedRealSeconds)
                totalMinutes == RAdd(baseMinutes, elapsedMinecraftMinutes)
            IN  getMinecraftPhaseFromMinutes(totalMinutes)

----------------------------------------------------------------------------
(* Inputs of the engine *)

\* most polls of one run
MaxPolls == 3
\* the phase lookup is called with every integer of -MaxDays .. MaxDays days
MaxDays == 2

\* the instant at which the reference was observed, in ms
SavedAtMs == 100 * 1000

\* "HH:MM", written without the engine's own formatting
TwoDigitText(n) == <<DigitChars[(n \div 10) + 1], DigitChars[(n % 10) + 1]>>
HHMM(h, m) == TwoDigitText(h) \o <<":">> \o TwoDigitText(m)

\* reference times of day <<hour, minute>>: around each phase boundary, the
\* spec's 06:00 scenario, midnight and the end of the day
ReferenceTimes ==
    { <<0, 0>>, <<4, 30>>, <<4, 33>>, <<6, 0>>, <<6, 24>>, <<6, 27>>, <<12, 0>>,
      <<17, 34>>, <<17, 37>>, <<19, 45>>, <<19, 48>>, <<23, 0>>, <<23, 57>>,
      <<23, 59>> }

\* hour or minute out of range, in HH:MM shape
OutOfRangeTimes == { <<24, 0>>, <<6, 60>>, <<23, 60>>, <<24, 60>>, <<99, 99>> }

\* a negative hour, a negative minute
NegativeTexts == { <<"-", "1", ":", "3", "0">>, <<"0", "6", ":", "-", "5">> }

\* two numeric fields and one colon, not zero-padded
UnpaddedTexts == { <<"6", ":", "5">>, <<"0", ":", "0">> }

\* other texts: a third field, trailing characters, signs, blanks, missing
\* fields, no digits
OtherTexts ==
    { <<"0", "6", ":", "0", "0", ":", "3", "0">>,
      <<"0", "6", ":", "0", "0", "a">>,
      <<"0", "6", "x", ":", "3", "0">>,
      <<" ", "0", "6", ":", "0", "0">>,
      <<"+", "6", ":", "0", "0">>,
      <<"-", "0", ":", "3", "0">>,
      <<"0", "6", "0", "0">>,
      <<":", "3", "0">>,
      <<"0", "6", ":">>,
      <<":">>,
      <<"0", "6", ":", ":", "3", "0">>,
      <<"a", "b", ":", "c", "d">>,
      <<"a", "6", ":", "0", "0">> }

InGameTimeTexts ==
    { HHMM(t[1], t[2]) : t \in ReferenceTimes \cup OutOfRangeTimes }
        \cup NegativeTexts \cup UnpaddedTexts \cup OtherTexts

Row(ingame_time, ingame_time_saved_at) ==
    [kind |-> "row", ingame_time |-> ingame_time,
     ingame_time_saved_at |-> ingame_time_saved_at]

\* a saved_at text that new Date() cannot parse
UnparseableText == Str(<<"h", "i", "e", "r">>)

Rows ==
    { Row(Str(t), IsoString(SavedAtMs)) : t \in InGameTimeTexts }
        \cup { Row(Str(HHMM(6, 0)), s) : s \in {JsNull, Str(<<>>), UnparseableText} }
        \cup { Row(JsNull, IsoString(SavedAtMs)), Row(Str(<<>>), IsoString(SavedAtMs)),
               Row(JsNull, JsNull), Undefined }

\* the first query instant: before, just before and at the observation
InitialInstants == { SavedAtMs - 50 * 1000, SavedAtMs - 1, SavedAtMs }

\* real time between two polls, in ms: one ms, three simulated minutes, the
\* spec's 27 s, one simulated hour, one simulated day
PollSteps == { 1, 2500, 27 * 1000, 50 * 1000, 1200 * 1000 }

MinutesArgs ==
    (0 - MaxDays * MINECRAFT_MINUTES_PER_DAY) .. (MaxDays * MINECRAFT_MINUTES_PER_DAY)

----------------------------------------------------------------------------
(* The page: constants and the state of Home before it is mounted *)

\* the ids of RESOURCES
ResourceIds == { "ressources-01", "ressources-02", "construction-01",
                 "construction-02" }

\* RESOURCES.find((item) => item.id === id).label
ResourceLabel(id) ==
    CASE id = "ressources-01" -> "Ressources-01"
      [] id = "ressources-02" -> "Ressources-02"
      [] id = "construction-01" -> "Construction-01"
      [] id = "construction-02" -> "Construction-02"

defaultMinutes == 60

\* the wall clock when the page is opened: the start of a minute
PageOpenedMs == 10 * 60 * 1000

\* the useState initial values
InitialUi ==
    [timers |-> [id \in ResourceIds |-> Undefined],
     minutesToAdd |-> [id \in ResourceIds |-> defaultMinutes],
     secondsToAdd |-> [id \in ResourceIds |-> 0],
     loading |-> TRUE,
     error |-> JsNull,
     refreshing |-> FALSE,
     updating |-> [id \in ResourceIds |-> FALSE],
     editing |-> [id \in ResourceIds |-> FALSE],
     showInGameControls |-> [id \in ResourceIds |-> FALSE],
     savingInGameTime |-> [id \in ResourceIds |-> FALSE],
     inGameTimeInputs |-> [id \in ResourceIds |-> <<>>],
     minecraftData |-> [id \in ResourceIds |-> Undefined]]

\* Home is not rendered and the table is empty
PageIdle ==
    /\ store = {}
    /\ nextRowId = 1
    /\ ui = InitialUi
    /\ mounted = "no"
    /\ intervals = <<>>
    /\ fetchIntervals = 0
    /\ calls = <<>>
    /\ lastFinished = NotCalled
    /\ started = 0
    /\ wallClockMs = PageOpenedMs
    /\ edits = 0
    /\ ticks = 0

----------------------------------------------------------------------------
(* The client module: a lazily created singleton *)

\* most getSupabaseBrowserClient calls of one run
MaxClientCalls == 4

\* a value of an environment variable: unset, empty or set
EnvValues == { Undefined, Str(<<>>), Str(<<"s", "e", "t">>) }

\* the instance the n-th createClient call returns
Client(n) == [kind |-> "client", instance |-> n]

\* mutant: no look at the cached client
getSupabaseBrowserClientUncached(cached, environment, created) ==
    IF Falsy(environment.url) \/ Falsy(environment.key)
    THEN [threw |-> TRUE, returned |-> JsNull, browserClient |-> cached,
          created |-> created]
    ELSE [threw |-> FALSE, returned |-> Client(created + 1),
          browserClient |-> Client(created + 1), created |-> created + 1]

\* one call, given the cached client, the environment and the number of
\* createClient calls so far: whether it threw, what it returned, and the
\* cached client and the number of createClient calls after it
getSupabaseBrowserClient(cached, environment, created) ==
    IF cached # JsNull
    THEN [threw |-> FALSE, returned |-> cached, browserClient |-> cached,
          created |-> created]
    ELSE IF Falsy(environment.url) \/ Falsy(environment.key)
    THEN [threw |-> TRUE, returned |-> JsNull, browserClient |-> cached,
          created |-> created]
    ELSE [threw |-> FALSE, returned |-> Client(created + 1),
          browserClient |-> Client(created + 1), created |-> created + 1]

\* the client module as loaded, with both variables set
ClientLoaded ==
    /\ browserClient = JsNull
    /\ env = [url |-> Str(<<"s", "e", "t">>), key |-> Str(<<"s", "e", "t">>)]
    /\ createClientCalls = 0
    /\ clientResults = <<>>

----------------------------------------------------------------------------
(* The state machine: a caller that polls the engine *)

Init ==
    /\ row \in Rows
    /\ instantMs \in InitialInstants
    /\ liveClock = NotCalled
    /\ predictedAtSpawn = NotCalled
    /\ prevInstantMs = NotCalled
    /\ prevLiveClock = NotCalled
    /\ prevPredictedAtSpawn = NotCalled
    /\ polls = 0
    /\ minutesArg = 0
    /\ phaseDetails = NotCalled
    /\ ClientLoaded
    /\ PageIdle

\* liveClock = deriveLiveMinecraftClock(row, now)
CallLive ==
    /\ liveClock = NotCalled
    /\ liveClock' = deriveLiveMinecraftClock(row, instantMs)
    /\ UNCHANGED <<row, instantMs, predictedAtSpawn, prevInstantMs, prevLiveClock,
                   prevPredictedAtSpawn, polls, minutesArg, phaseDetails, pageVars>>

\* predictedAtSpawn = deriveMinecraftClockAtDate(row, new Date(instant))
CallAtDate ==
    /\ predictedAtSpawn = NotCalled
    /\ predictedAtSpawn' = deriveMinecraftClockAtDate(row, instantMs)
    /\ UNCHANGED <<row, instantMs, liveClock, prevInstantMs, prevLiveClock,
                   prevPredictedAtSpawn, polls, minutesArg, phaseDetails, pageVars>>

\* real time passes and the caller polls again; what it had is kept as the
\* previous poll
Poll(step) ==
    /\ polls < MaxPolls
    /\ liveClock # NotCalled
    /\ predictedAtSpawn # NotCalled
    /\ instantMs' = instantMs + step
    /\ prevInstantMs' = Num(instantMs)
    /\ prevLiveClock' = liveClock
    /\ prevPredictedAtSpawn' = predictedAtSpawn
    /\ liveClock' = NotCalled
    /\ predictedAtSpawn' = NotCalled
    /\ polls' = polls + 1
    /\ UNCHANGED <<row, minutesArg, phaseDetails, pageVars>>

\* phaseDetails = getMinecraftPhaseFromMinutes(minutesArg)
CallPhase ==
    /\ phaseDetails = NotCalled
    /\ phaseDetails' = getMinecraftPhaseFromMinutes(RInt(minutesArg))
    /\ UNCHANGED <<minutesArg, row, instantMs, liveClock, predictedAtSpawn,
                   prevInstantMs, prevLiveClock, prevPredictedAtSpawn, polls,
                   pageVars>>

Next ==
    \/ CallLive
    \/ CallAtDate
    \/ \E step \in PollSteps : Poll(step)

Spec == Init /\ [][Next]_vars

\* the phase lookup alone, on every integer argument of MinutesArgs
InitPhase ==
    /\ row = Undefined
    /\ instantMs = SavedAtMs
    /\ liveClock = NotCalled
    /\ predictedAtSpawn = NotCalled
    /\ prevInstantMs = NotCalled
    /\ prevLiveClock = NotCalled
    /\ prevPredictedAtSpawn = NotCalled
    /\ polls = 0
    /\ minutesArg \in MinutesArgs
    /\ phaseDetails = NotCalled
    /\ ClientLoaded
    /\ PageIdle

NextPhase == CallPhase

SpecPhase == InitPhase /\ [][NextPhase]_vars

----------------------------------------------------------------------------
(* What the claims compare the engine with *)

\* the boundary table of the specification, for an integer minute of the day
ExpectedPhase(m) ==
    IF 273 <= m /\ m < 387 THEN "Aube"
    ELSE IF 387 <= m /\ m < 1057 THEN "Jour"
    ELSE IF 1057 <= m /\ m < 1188 THEN "Crepuscule"
    ELSE "Nuit"

PhaseNames == {"Aube", "Jour", "Crepuscule", "Nuit"}

\* the references the claims call valid, each with the hour and minute it
\* denotes
References ==
    { [text |-> HHMM(t[1], t[2]), hour |-> t[1], minute |-> t[2]] :
          t \in ReferenceTimes }
        \cup { [text |-> <<"6", ":", "5">>, hour |-> 6, minute |-> 5],
               [text |-> <<"0", ":", "0">>, hour |-> 0, minute |-> 0] }

\* row is the reference ref, observed at SavedAtMs
IsReference(ref) == row = Row(Str(ref.text), IsoString(SavedAtMs))

\* real ms elapsed since the observation, clamped to zero
ElapsedMs == IF instantMs > SavedAtMs THEN instantMs - SavedAtMs ELSE 0

\* total simulated time of ref at the query instant, in thousandths of a
\* simulated second: 72 simulated seconds per real second
TotalSimulatedMs(ref) ==
    (ref.hour * 60 + ref.minute) * 60 * 1000 + (86400 \div 1200) * ElapsedMs

\* the phase whose interval contains the fractional minute ms / 60000
ExpectedPhaseOfMs(ms) ==
    LET t == ms % (86400 * 1000)
    IN  IF 273 * 60000 <= t /\ t < 387 * 60000 THEN "Aube"
        ELSE IF 387 * 60000 <= t /\ t < 1057 * 60000 THEN "Jour"
        ELSE IF 1057 * 60000 <= t /\ t < 1188 * 60000 THEN "Crepuscule"
        ELSE "Nuit"

\* a numeric field, read generously: blanks, an optional sign, then digits
\* and nothing else
NumericField(field) ==
    LET t == SkipWhitespace(field)
        u == IF t # <<>> /\ Head(t) \in {"-", "+"} THEN Tail(t) ELSE t
    IN  u # <<>> /\ \A i \in 1..Len(u) : IsDigit(u[i])

\* exactly two numeric fields separated by one colon
HasShapeHHMM(chars) ==
    \E k \in 1..Len(chars) :
        /\ chars[k] = ":"
        /\ \A i \in (1..Len(chars)) \ {k} : chars[i] # ":"
        /\ NumericField(SubSeq(chars, 1, k - 1))
        /\ NumericField(SubSeq(chars, k + 1, Len(chars)))

----------------------------------------------------------------------------
(* Claims on getMinecraftPhaseFromMinutes, under SpecPhase *)

\* C1: for every integer m in [0,1440) the lookup returns exactly one of the
\* four phases, and it is Aube iff 273 <= m < 387, Jour iff 387 <= m < 1057,
\* Crepuscule iff 1057 <= m < 1188, Nuit iff m < 273 or m >= 1188.
C1_PhasePartition ==
    (phaseDetails # NotCalled /\ minutesArg \in 0..1439) =>
        /\ phaseDetails.phase \in PhaseNames
        /\ (phaseDetails.phase = "Aube") <=> (273 <= minutesArg /\ minutesArg < 387)
        /\ (phaseDetails.phase = "Jour") <=> (387 <= minutesArg /\ minutesArg < 1057)
        /\ (phaseDetails.phase = "Crepuscule") <=>
               (1057 <= minutesArg /\ minutesArg < 1188)
        /\ (phaseDetails.phase = "Nuit") <=> (minutesArg < 273 \/ minutesArg >= 1188)

\* the lookup has answered Jour at 387, the first minute after dawn
C1_Witness ==
    /\ phaseDetails # NotCalled
    /\ minutesArg = 387
    /\ phaseDetails.phase = "Jour"

\* C8: for every integer m, negative ones included, the lookup of m is the
\* lookup of the representative of m in [0,1440) (phase and time label); for
\* -10 and 1430 it is Nuit with the label 23:50.
C8_TrueModulo ==
    phaseDetails # NotCalled =>
        LET rep == minutesArg % 1440
        IN  /\ phaseDetails = getMinecraftPhaseFromMinutes(RInt(rep))
            /\ phaseDetails.phase = ExpectedPhase(rep)
            /\ phaseDetails.timeLabel = HHMM(rep \div 60, rep % 60)
            /\ minutesArg \in {-10, 1430} =>
                   /\ phaseDetails.phase = "Nuit"
                   /\ phaseDetails.timeLabel = <<"2", "3", ":", "5", "0">>

\* the lookup has answered for a negative argument that belongs to the day
C8_Witness ==
    /\ phaseDetails # NotCalled
    /\ minutesArg = -400
    /\ phaseDetails.phase = "Jour"
    /\ phaseDetails.timeLabel = HHMM(17, 20)

----------------------------------------------------------------------------
(* Claims on the two derivations, under Spec *)

\* C2: at every instant the two derivations agree on returning null, and
\* when they return a result the phase of deriveMinecraftClockAtDate is
\* the phaseDetails.phase of deriveLiveMinecraftClock.
C2_LiveAndAtDateAgree ==
    (liveClock # NotCalled /\ predictedAtSpawn # NotCalled) =>
        /\ (liveClock = JsNull) <=> (predictedAtSpawn = JsNull)
        /\ liveClock # JsNull =>
               liveClock.phaseDetails.phase = predictedAtSpawn.phase

\* both have answered Aube for 04:30 queried 2.5 s after the observation,
\* the instant at which dawn starts
C2_Witness ==
    /\ IsReference([text |-> HHMM(4, 30), hour |-> 4, minute |-> 30])
    /\ instantMs = SavedAtMs + 2500
    /\ liveClock # NotCalled /\ liveClock # JsNull
    /\ predictedAtSpawn # NotCalled /\ predictedAtSpawn # JsNull
    /\ liveClock.phaseDetails.phase = "Aube"
    /\ predictedAtSpawn.phase = "Aube"

\* C3: for a valid reference h:m and a query instant not after the
\* observation, deriveLiveMinecraftClock returns the clock h:m zero-padded
\* with the phase of minute h*60+m, and deriveMinecraftClockAtDate returns
\* that phase.
C3_ClampedBeforeObservation ==
    \A ref \in References :
        (IsReference(ref) /\ instantMs <= SavedAtMs) =>
            /\ liveClock # NotCalled =>
                   /\ liveClock # JsNull
                   /\ liveClock.clock = HHMM(ref.hour, ref.minute)
                   /\ liveClock.phaseDetails.phase =
                          ExpectedPhase(ref.hour * 60 + ref.minute)
            /\ predictedAtSpawn # NotCalled =>
                   /\ predictedAtSpawn # JsNull
                   /\ predictedAtSpawn.phase =
                          ExpectedPhase(ref.hour * 60 + ref.minute)

\* the unpadded reference 6:5 queried 50 s before its observation has given
\* 06:05 and Aube from both derivations
C3_Witness ==
    /\ IsReference([text |-> <<"6", ":", "5">>, hour |-> 6, minute |-> 5])
    /\ instantMs = SavedAtMs - 50 * 1000
    /\ liveClock # NotCalled /\ liveClock # JsNull
    /\ liveClock.clock = <<"0", "6", ":", "0", "5">>
    /\ liveClock.phaseDetails.phase = "Aube"
    /\ predictedAtSpawn # NotCalled /\ predictedAtSpawn # JsNull
    /\ predictedAtSpawn.phase = "Aube"

\* C4: for a valid reference h:m and every k >= 0, deriveLiveMinecraftClock
\* queried 50*k real seconds after the observation returns the clock
\* ((h + k) mod 24):m.
C4_OneHourPerFiftySeconds ==
    \A ref \in References :
        (/\ IsReference(ref)
         /\ liveClock # NotCalled
         /\ instantMs >= SavedAtMs
         /\ (instantMs - SavedAtMs) % (50 * 1000) = 0) =>
            LET k == (instantMs - SavedAtMs) \div (50 * 1000)
            IN  /\ liveClock # JsNull
                /\ liveClock.clock = HHMM((ref.hour + k) % 24, ref.minute)

\* 00:00 queried 50 s after the observation has given 01:00
C4_Witness ==
    /\ IsReference([text |-> HHMM(0, 0), hour |-> 0, minute |-> 0])
    /\ instantMs = SavedAtMs + 50 * 1000
    /\ liveClock # NotCalled /\ liveClock # JsNull
    /\ liveClock.clock = <<"0", "1", ":", "0", "0">>

\* the row is missing, a reference field is null or empty, the hour or the
\* minute is out of range, or the observation timestamp does not parse
BadReference ==
    \/ row = Undefined
    \/ row.ingame_time \in {JsNull, Str(<<>>)}
    \/ row.ingame_time_saved_at \in {JsNull, Str(<<>>), UnparseableText}
    \/ \E t \in OutOfRangeTimes : row.ingame_time = Str(HHMM(t[1], t[2]))
    \/ \E t \in NegativeTexts : row.ingame_time = Str(t)

\* C5: both derivations return null when the reference is missing, the hour
\* is outside 0..23, the minute is outside 0..59, or the observation
\* timestamp is unparseable.
C5_NullOnBadReference ==
    BadReference =>
        /\ liveClock # NotCalled => liveClock = JsNull
        /\ predictedAtSpawn # NotCalled => predictedAtSpawn = JsNull

\* both have returned null for 24:00
C5_Witness ==
    /\ row = Row(Str(HHMM(24, 0)), IsoString(SavedAtMs))
    /\ liveClock = JsNull
    /\ predictedAtSpawn = JsNull

\* C6: every time-of-day text that is not two numeric fields separated by
\* one colon makes both derivations return null.
C6_MalformedShapeIsNull ==
    (/\ row # Undefined
     /\ row.ingame_time.kind = "string"
     /\ ~HasShapeHHMM(row.ingame_time.chars)) =>
        /\ liveClock # NotCalled => liveClock = JsNull
        /\ predictedAtSpawn # NotCalled => predictedAtSpawn = JsNull

\* C7: for a valid reference the clock is the zero-padded HH:MM of
\* floor(total simulated seconds / 60) mod 1440, and the phase is the one
\* whose interval contains total simulated seconds / 60 as a fraction.
C7_TruncatedClockExactPhase ==
    \A ref \in References :
        (IsReference(ref) /\ liveClock # NotCalled) =>
            LET total == TotalSimulatedMs(ref)
                minuteOfDay == (total \div 60000) % 1440
            IN  /\ liveClock # JsNull
                /\ liveClock.clock = HHMM(minuteOfDay \div 60, minuteOfDay % 60)
                /\ liveClock.phaseDetails.phase = ExpectedPhaseOfMs(total)

\* 06:00 queried 27 s after the observation has given 06:32 and Jour
C7_Witness ==
    /\ IsReference([text |-> HHMM(6, 0), hour |-> 6, minute |-> 0])
    /\ instantMs = SavedAtMs + 27 * 1000
    /\ liveClock # NotCalled /\ liveClock # JsNull
    /\ liveClock.clock = <<"0", "6", ":", "3", "2">>
    /\ liveClock.phaseDetails.phase = "Jour"

\* C9: for a valid reference and a query instant X not before the
\* observation, both derivations return at X + 1200 s what they returned at X.
C9_CycleOfTwelveHundredSeconds ==
    (/\ \E ref \in References : IsReference(ref)
     /\ prevInstantMs # NotCalled
     /\ prevInstantMs.n >= SavedAtMs
     /\ instantMs = prevInstantMs.n + 1200 * 1000) =>
        /\ liveClock # NotCalled => liveClock = prevLiveClock
        /\ predictedAtSpawn # NotCalled => predictedAtSpawn = prevPredictedAtSpawn

\* 06:00 polled 27 s after the observation and again 1200 s later has given
\* 06:32 and Jour both times
C9_Witness ==
    /\ IsReference([text |-> HHMM(6, 0), hour |-> 6, minute |-> 0])
    /\ prevInstantMs = Num(SavedAtMs + 27 * 1000)
    /\ instantMs = SavedAtMs + 27 * 1000 + 1200 * 1000
    /\ liveClock # NotCalled /\ liveClock = prevLiveClock
    /\ liveClock.clock = <<"0", "6", ":", "3", "2">>
    /\ predictedAtSpawn # NotCalled /\ predictedAtSpawn = prevPredictedAtSpawn
    /\ predictedAtSpawn.phase = "Jour"

\* C10: for a valid reference the total simulated seconds normalize into
\* [0, 86400) at every query instant, and every non-null result of
\* deriveLiveMinecraftClock has a clock of two digits, a colon and two
\* digits, with the hour in 00..23 and the minute in 00..59.
C10_ClockInRange ==
    /\ \A ref \in References :
           IsReference(ref) =>
               LET normalized ==
                       normalizeMinecraftSeconds(Rat(TotalSimulatedMs(ref), 1000))
               IN  RGeq(normalized, RInt(0)) /\ RLess(normalized, RInt(86400))
    /\ (liveClock # NotCalled /\ liveClock # JsNull) =>
           LET c == liveClock.clock
           IN  /\ Len(c) = 5
               /\ c[3] = ":"
               /\ \A i \in {1, 2, 4, 5} : IsDigit(c[i])
               /\ 10 * DigitValue(c[1]) + DigitValue(c[2]) \in 0..23
               /\ 10 * DigitValue(c[4]) + DigitValue(c[5]) \in 0..59

\* 23:59 queried more than two simulated days after the observation has
\* given a clock
C10_Witness ==
    /\ IsReference([text |-> HHMM(23, 59), hour |-> 23, minute |-> 59])
    /\ instantMs > SavedAtMs + 2 * 1200 * 1000
    /\ liveClock # NotCalled /\ liveClock # JsNull
    /\ Len(liveClock.clock) = 5

----------------------------------------------------------------------------
(* The state machine of the client module *)

engineVars == <<row, instantMs, liveClock, predictedAtSpawn, prevInstantMs,
                prevLiveClock, prevPredictedAtSpawn, polls, minutesArg,
                phaseDetails>>

\* the engine is not used
EngineIdle ==
    /\ row = Undefined
    /\ instantMs = SavedAtMs
    /\ liveClock = NotCalled
    /\ predictedAtSpawn = NotCalled
    /\ prevInstantMs = NotCalled
    /\ prevLiveClock = NotCalled
    /\ prevPredictedAtSpawn = NotCalled
    /\ polls = 0
    /\ minutesArg = 0
    /\ phaseDetails = NotCalled

\* the environment as the process starts: any values of the two variables
InitClient ==
    /\ EngineIdle
    /\ browserClient = JsNull
    /\ env \in [url : EnvValues, key : EnvValues]
    /\ createClientCalls = 0
    /\ clientResults = <<>>
    /\ PageIdle

\* a call of getSupabaseBrowserClient(); the entry appended to clientResults
\* also records the environment and the cache as the call found them
GetSupabaseBrowserClient ==
    /\ Len(clientResults) < MaxClientCalls
    /\ LET out == getSupabaseBrowserClient(browserClient, env, createClientCalls)
       IN  /\ browserClient' = out.browserClient
           /\ createClientCalls' = out.created
           /\ clientResults' =
                  Append(clientResults,
                         [threw |-> out.threw,
                          returned |-> out.returned,
                          missing |-> Falsy(env.url) \/ Falsy(env.key),
                          cachedBefore |-> browserClient # JsNull,
                          cachedAfter |-> out.browserClient # JsNull])
    /\ UNCHANGED <<env, engineVars, homeVars>>

\* the process environment is changed between two calls
SetEnv(environment) ==
    /\ environment # env
    /\ env' = environment
    /\ UNCHANGED <<browserClient, createClientCalls, clientResults, engineVars,
                   homeVars>>

NextClient ==
    \/ GetSupabaseBrowserClient
    \/ \E environment \in [url : EnvValues, key : EnvValues] : SetEnv(environment)

SpecClient == InitClient /\ [][NextClient]_vars

----------------------------------------------------------------------------
(* Claims on the client module, under SpecClient *)

\* createClient is called at most once and every call that returns, returns
\* the one instance
OneClient ==
    /\ createClientCalls <= 1
    /\ \A i \in 1..Len(clientResults) :
           ~clientResults[i].threw => clientResults[i].returned = Client(1)

\* C16, as stated: createClient is called at most once, every successful
\* call returns that instance, and every call made while either variable is
\* missing throws and leaves no client cached.
C16_SingletonAsStated ==
    /\ OneClient
    /\ \A i \in 1..Len(clientResults) :
           clientResults[i].missing =>
               clientResults[i].threw /\ ~clientResults[i].cachedAfter

\* C16, amended: createClient is called at most once and every successful
\* call returns that instance; a call made while no client is cached and
\* either variable is missing throws and leaves no client cached; a call
\* made while no client is cached and both variables are present creates the
\* client and returns it; a call made while a client is cached returns it.
C16_Singleton ==
    /\ OneClient
    /\ (browserClient = JsNull) <=> (createClientCalls = 0)
    /\ \A i \in 1..Len(clientResults) :
           LET r == clientResults[i]
           IN  /\ (r.missing /\ ~r.cachedBefore) => (r.threw /\ ~r.cachedAfter)
               /\ (~r.missing /\ ~r.cachedBefore) =>
                      (~r.threw /\ r.cachedAfter /\ r.returned = Client(1))
               /\ r.cachedBefore =>
                      (~r.threw /\ r.cachedAfter /\ r.returned = Client(1))

\* a call threw for a missing variable, a later call created the client and
\* the call after it got the same instance from the cache
C16_Witness ==
    /\ Len(clientResults) >= 3
    /\ clientResults[1].threw /\ clientResults[1].missing
    /\ ~clientResults[2].threw /\ ~clientResults[2].cachedBefore
    /\ ~clientResults[3].threw /\ clientResults[3].cachedBefore
    /\ clientResults[3].returned = clientResults[2].returned
    /\ createClientCalls = 1

----------------------------------------------------------------------------
(* The remote table spawn_timers *)

\* a column a request body does not carry
Absent == [kind |-> "absent"]

StoreRow(id, text, next_spawn, ingame_time, ingame_time_saved_at) ==
    [kind |-> "row", id |-> id, text |-> text, next_spawn |-> next_spawn,
     ingame_time |-> ingame_time,
     ingame_time_saved_at |-> ingame_time_saved_at]

\* a request as the client builds it: from("spawn_timers").update(body)
\* .eq("text", label).select(), .insert(body).select(), or
\* .select().in("text", labels)
Request(kind, label, next_spawn, ingame_time, ingame_time_saved_at) ==
    [kind |-> kind, label |-> label, next_spawn |-> next_spawn,
     ingame_time |-> ingame_time,
     ingame_time_saved_at |-> ingame_time_saved_at]

Carried(value, otherwise) == IF value = Absent THEN otherwise ELSE value

\* mutant: the update writes every column, null for those not carried
PatchEveryColumn(r, req) ==
    [r EXCEPT !.next_spawn = Carried(req.next_spawn, JsNull),
              !.ingame_time = Carried(req.ingame_time, JsNull),
              !.ingame_time_saved_at = Carried(req.ingame_time_saved_at, JsNull)]

\* the row after an update with the body of req
Patch(r, req) ==
    [r EXCEPT !.next_spawn = Carried(req.next_spawn, @),
              !.ingame_time = Carried(req.ingame_time, @),
              !.ingame_time_saved_at = Carried(req.ingame_time_saved_at, @)]

\* update(body).eq("text", label): the table afterwards
StoreAfterUpdate(st, req) ==
    { IF r.text = req.label THEN Patch(r, req) ELSE r : r \in st }

\* update(body).eq("text", label).select(): the rows returned
UpdatedRows(st, req) == { Patch(r, req) : r \in { x \in st : x.text = req.label } }

\* insert(body).select(): the row created, the columns not carried are null
InsertedRow(req, id) ==
    StoreRow(id, req.label, Carried(req.next_spawn, JsNull),
             Carried(req.ingame_time, JsNull),
             Carried(req.ingame_time_saved_at, JsNull))

\* the labels fetchTimers asks for
ResourceLabels == { ResourceLabel(id) : id \in ResourceIds }

----------------------------------------------------------------------------
(* Home: helpers of the handlers *)

Message(text) == [kind |-> "message", text |-> text]

\* String.prototype.trim on the blank
RECURSIVE TrimEnd(_)
TrimEnd(s) ==
    IF s # <<>> /\ s[Len(s)] = " " THEN TrimEnd(SubSeq(s, 1, Len(s) - 1)) ELSE s

Trim(s) == TrimEnd(SkipWhitespace(s))

\* row?.ingame_time ?? fallback, as the characters of the input buffer
InGameTimeOr(r, fallback) ==
    IF r = Undefined THEN fallback
    ELSE IF r.ingame_time.kind = "string" THEN r.ingame_time.chars
    ELSE fallback

\* mutant: the live clock taken at the next spawn instead of now
MinecraftDataOfAtNextSpawn(r, now) ==
    [liveClock |->
        IF r = Undefined THEN JsNull
        ELSE deriveLiveMinecraftClock(r, DateGetTime(r.next_spawn).n),
     predictedAtSpawn |-> JsNull]

\* the body of updateMinecraftData for one resource
MinecraftDataOf(r, now) ==
    [liveClock |-> deriveLiveMinecraftClock(r, now),
     predictedAtSpawn |->
        IF r = Undefined THEN JsNull
        ELSE IF Falsy(r.next_spawn) THEN JsNull
        ELSE LET target == DateGetTime(r.next_spawn)
             IN  IF target = NaN THEN JsNull
                 ELSE deriveMinecraftClockAtDate(r, target.n)]

\* updateMinecraftData: the data of every resource from one timers value and
\* one reading of Date.now()
updateMinecraftData(timers, now) ==
    [id \in ResourceIds |-> MinecraftDataOf(timers[id], now)]

\* mutant: an effect without cleanup
ClearIntervalMissing(ivs) == ivs

\* clearInterval(interval) of the effect cleanup: it clears the interval the
\* previous run of the effect created, the last one started
ClearInterval(ivs) ==
    IF ivs = <<>> THEN ivs ELSE SubSeq(ivs, 1, Len(ivs) - 1)

\* the [timers] effect after a commit that changed timers: cleanup of the
\* previous run, then setInterval(updateMinecraftData, 100)
EffectIntervals(ivs, timers) == Append(ClearInterval(ivs), timers)

\* baseDate.setSeconds(0, 0)
StartOfMinute(ms) == ms - (ms % (60 * 1000))

\* updatedDate after setMinutes(getMinutes() + minutes) and setSeconds(seconds)
NextSpawnMs(now, minutes, seconds) ==
    StartOfMinute(now) + minutes * 60 * 1000 + seconds * 1000

\* mutant: sixty seconds let through
AddMinutesRejectionUpToSixty(id, minutes, seconds) ==
    IF id \notin ResourceIds THEN Message("Ressource inconnue.")
    ELSE IF minutes < 0 THEN Message("Veuillez saisir un temps valide.")
    ELSE IF seconds < 0 \/ seconds > 60
         THEN Message("Les secondes doivent etre comprises entre 0 et 59.")
    ELSE IF minutes * 60 + seconds <= 0
         THEN Message("Veuillez saisir un temps superieur a zero.")
    ELSE JsNull

\* the validation of handleAddMinutes: the message it rejects with, or null
AddMinutesRejection(id, minutes, seconds) ==
    IF id \notin ResourceIds THEN Message("Ressource inconnue.")
    ELSE IF minutes < 0 THEN Message("Veuillez saisir un temps valide.")
    ELSE IF seconds < 0 \/ seconds >= 60
         THEN Message("Les secondes doivent etre comprises entre 0 et 59.")
    ELSE IF minutes * 60 + seconds <= 0
         THEN Message("Veuillez saisir un temps superieur a zero.")
    ELSE JsNull

\* mutant: the fields only required to be numbers, no range
SaveInGameTimeRejectionAnyHour(id, value) ==
    IF id \notin ResourceIds THEN Message("Ressource inconnue.")
    ELSE IF value = <<>>
         THEN Message("Veuillez saisir une heure Minecraft au format HH:MM.")
    ELSE LET parts == SplitColon(value)
             hoursPart == Destructure(parts, 1)
             minutesPart == Destructure(parts, 2)
         IN  IF Falsy(hoursPart) \/ Falsy(minutesPart)
             THEN Message("Format de temps Minecraft invalide. Utilisez HH:MM.")
             ELSE IF ParseInt(hoursPart.chars) = NaN
                     \/ ParseInt(minutesPart.chars) = NaN
             THEN Message("Format de temps Minecraft invalide. Utilisez HH:MM.")
             ELSE JsNull

\* the validation of handleSaveInGameTime on the trimmed input
SaveInGameTimeRejection(id, value) ==
    IF id \notin ResourceIds THEN Message("Ressource inconnue.")
    ELSE IF value = <<>>
         THEN Message("Veuillez saisir une heure Minecraft au format HH:MM.")
    ELSE LET parts == SplitColon(value)
             hoursPart == Destructure(parts, 1)
             minutesPart == Destructure(parts, 2)
         IN  IF Falsy(hoursPart) \/ Falsy(minutesPart)
             THEN Message("Format de temps Minecraft invalide. Utilisez HH:MM.")
             ELSE IF OutOfRange(ParseInt(hoursPart.chars),
                                ParseInt(minutesPart.chars))
             THEN Message("Format de temps Minecraft invalide. Utilisez HH:MM.")
             ELSE JsNull

UpdateFailed == Message("La mise a jour a echoue.")
NoDataReturned == Message("La mise a jour n'a retourne aucune donnee.")
FetchFailed == Message("Impossible de recuperer les prochains spawns.")

\* the state changes of handleAddMinutes once a row came back
AddMinutesStored(u, id, r) ==
    [u EXCEPT !.timers[id] = r,
              !.editing[id] = FALSE,
              !.minutesToAdd[id] = defaultMinutes,
              !.secondsToAdd[id] = 0,
              !.inGameTimeInputs[id] = InGameTimeOr(r, <<>>),
              !.showInGameControls[id] = FALSE]

\* the state changes of handleSaveInGameTime once a row came back
SaveInGameTimeStored(u, id, r, value) ==
    [u EXCEPT !.timers[id] = r,
              !.inGameTimeInputs[id] = InGameTimeOr(r, value),
              !.showInGameControls[id] = FALSE]

\* a state after a render in which timers changed: the [timers] effect has
\* recomputed the derived data from the new timers
Rendered(u, timersChanged) ==
    IF timersChanged
    THEN [u EXCEPT !.minecraftData = updateMinecraftData(u.timers, wallClockMs)]
    ELSE u

----------------------------------------------------------------------------
(* Home: the state machine of the page and of the remote table *)

\* most events of one session after the mount: invocations of fetchTimers
\* and of the two mutation handlers, input events and advances of the wall
\* clock
MaxEvents == 3

Events == started + edits + ticks

\* the resources the user acts on, and an id that is not in RESOURCES
ActiveIds == { "ressources-01", "construction-01" }
UnknownId == "inconnu"
HandlerIds == ActiveIds \cup { UnknownId }
\* the resource whose inputs the user edits
EditedIds == { "construction-01" }

MinutesTexts == { <<"0">> }
SecondsTexts == { <<"3", "0">> }
InGameTexts == { <<" ">> \o HHMM(18, 30) }
TickSteps == { 1000 }

UpdateOutcomes == { "error", "rows" }
InsertOutcomes == { "error", "rows", "norows" }
SelectOutcomes == { "error", "rows" }

\* the table when the page is opened: a row for each of two resources, with
\* the same reference time saved at the same instant and different
\* next_spawn; no row for the other two
SeededStore ==
    { StoreRow(1, ResourceLabel("ressources-01"),
               IsoString(PageOpenedMs + 50 * 1000), Str(HHMM(6, 0)),
               IsoString(PageOpenedMs - 50 * 1000)),
      StoreRow(2, ResourceLabel("ressources-02"),
               IsoString(PageOpenedMs + 60 * 60 * 1000), Str(HHMM(6, 0)),
               IsoString(PageOpenedMs - 50 * 1000)) }

\* one invocation: op is "fetch", "add" or "save"; pc is the request it
\* awaits ("select", "update", "insert") or "done"; log lists the requests
\* the store has answered.  calls holds the invocations that await the
\* store, in the order they started; lastFinished is the last one that
\* returned
Invocation(op, id, pc, accepted, minutes, seconds, value, request, startedAt) ==
    [op |-> op, id |-> id, pc |-> pc, accepted |-> accepted,
     minutes |-> minutes, seconds |-> seconds, value |-> value,
     request |-> request, log |-> <<>>, startedAt |-> startedAt]

NoRequest == Request("none", "", Absent, Absent, Absent)

Answered(req, outcome, rows) ==
    [kind |-> req.kind, label |-> req.label, outcome |-> outcome,
     rows |-> rows, body |-> req]

\* the invocation after the answer to its request, finished or going on with
\* the next request
Finished(c, outcome, rows) ==
    [c EXCEPT !.pc = "done",
              !.log = Append(@, Answered(c.request, outcome, rows))]

\* an invocation that returned from its validation, without a request
Rejected(op, id, minutes, seconds, value) ==
    Invocation(op, id, "done", FALSE, minutes, seconds, value, NoRequest,
               wallClockMs)

\* mutant: the insert issued whenever no row came back, error or not
InsertNeededWithoutRow(outcome, rows) == rows = {}

\* the handler issues the insert when the update reported no error and
\* returned no row
InsertNeeded(outcome, rows) == outcome = "rows" /\ rows = {}

GoesOnWithInsert(c, outcome) ==
    [c EXCEPT !.pc = "insert",
              !.log = Append(@, Answered(c.request, outcome, 0)),
              !.request = [c.request EXCEPT !.kind = "insert"]]

\* calls without its i-th invocation
Without(cs, i) == SubSeq(cs, 1, i - 1) \o SubSeq(cs, i + 1, Len(cs))

\* a state setter called after unmount changes nothing
Commit(u) == IF mounted = "yes" THEN u ELSE ui

\* the intervals after a step that called setTimers
IntervalsAfterSetTimers(timers) ==
    IF mounted = "yes" THEN EffectIntervals(intervals, timers) ELSE intervals

\* mutant: normalized filled from any fetched row, whatever its text
NormalizationsOfAnyRow(st) ==
    IF st = {} THEN { [id \in ResourceIds |-> Undefined] }
    ELSE [ResourceIds -> st]

\* normalized of fetchTimers: for each resource the last fetched row with its
\* label (the order of the fetched rows is the store's), none when no row has it
Normalizations(st) ==
    { f \in [ResourceIds -> st \cup {Undefined}] :
        \A id \in ResourceIds :
            LET matches == { r \in st : r.text = ResourceLabel(id) }
            IN  IF matches = {} THEN f[id] = Undefined ELSE f[id] \in matches }

\* fetchTimers up to its await
FetchTimersStarted(u) == [u EXCEPT !.error = JsNull, !.refreshing = TRUE]

FetchInvocation ==
    Invocation("fetch", "", "select", TRUE, 0, 0, <<>>,
               Request("select", "", Absent, Absent, Absent), wallClockMs)

\* the page is opened 45 s into a minute
HomeInit ==
    /\ store = SeededStore
    /\ nextRowId = Cardinality(SeededStore) + 1
    /\ ui = InitialUi
    /\ mounted = "no"
    /\ intervals = <<>>
    /\ fetchIntervals = 0
    /\ calls = <<>>
    /\ lastFinished = NotCalled
    /\ started = 0
    /\ wallClockMs = PageOpenedMs + 45 * 1000
    /\ edits = 0
    /\ ticks = 0

InitPage ==
    /\ EngineIdle
    /\ ClientLoaded
    /\ HomeInit

\* the first render of Home and its effects: the client is acquired,
\* fetchTimers is called, the 60 s interval is started, the derived data is
\* computed and the 100 ms interval is started
Mount ==
    /\ mounted = "no"
    /\ LET acquired == getSupabaseBrowserClient(browserClient, env,
                                                createClientCalls)
       IN  /\ ~acquired.threw
           /\ browserClient' = acquired.browserClient
           /\ createClientCalls' = acquired.created
    /\ mounted' = "yes"
    /\ ui' = FetchTimersStarted(
                [ui EXCEPT !.minecraftData =
                               updateMinecraftData(ui.timers, wallClockMs)])
    /\ intervals' = Append(intervals, ui.timers)
    /\ fetchIntervals' = 1
    /\ calls' = Append(calls, FetchInvocation)
    /\ UNCHANGED <<env, clientResults, engineVars, store, nextRowId,
                   lastFinished, started, wallClockMs, edits, ticks>>

\* the cleanups of the effects
Unmount ==
    /\ mounted = "yes"
    /\ mounted' = "gone"
    /\ intervals' = ClearInterval(intervals)
    /\ fetchIntervals' = 0
    /\ UNCHANGED <<clientVars, engineVars, store, nextRowId, ui, calls,
                   lastFinished, started, wallClockMs, edits, ticks>>

\* the wall clock advances while the page is open
Tick(step) ==
    /\ mounted # "gone"
    /\ Events < MaxEvents
    /\ ticks' = ticks + 1
    /\ wallClockMs' = wallClockMs + step
    /\ UNCHANGED <<clientVars, engineVars, store, nextRowId, ui, mounted,
                   intervals, fetchIntervals, calls, lastFinished, started,
                   edits>>

\* an active 100 ms interval fires: updateMinecraftData with the timers it
\* was bound to
RecomputeIntervalFires(k) ==
    /\ k \in 1..Len(intervals)
    /\ ui' = [ui EXCEPT !.minecraftData =
                            updateMinecraftData(intervals[k], wallClockMs)]
    /\ UNCHANGED <<clientVars, engineVars, store, nextRowId, mounted,
                   intervals, fetchIntervals, calls, lastFinished, started,
                   wallClockMs, edits, ticks>>

\* a call of fetchTimers up to its await
FetchTimersCalled ==
    /\ Events < MaxEvents
    /\ started' = started + 1
    /\ ui' = FetchTimersStarted(ui)
    /\ calls' = Append(calls, FetchInvocation)
    /\ UNCHANGED <<clientVars, engineVars, store, nextRowId, mounted,
                   intervals, fetchIntervals, lastFinished, wallClockMs,
                   edits, ticks>>

\* the 60 s interval fires: void fetchTimers()
FetchIntervalFires ==
    /\ fetchIntervals > 0
    /\ FetchTimersCalled

\* the refresh button, disabled while refreshing
HandleRefresh ==
    /\ mounted = "yes"
    /\ ~ui.refreshing
    /\ FetchTimersCalled

\* the invocation calls[i] returns
Returns(i, outcome, rows) ==
    /\ calls' = Without(calls, i)
    /\ lastFinished' = Finished(calls[i], outcome, rows)

\* the store answers the select of fetchTimers and fetchTimers resumes
FetchTimersResumes(i, outcome) ==
    /\ i \in 1..Len(calls)
    /\ calls[i].op = "fetch"
    /\ calls[i].pc = "select"
    /\ IF outcome = "error"
       THEN /\ ui' = Commit([ui EXCEPT !.error = FetchFailed,
                                       !.refreshing = FALSE,
                                       !.loading = FALSE])
            /\ UNCHANGED intervals
            /\ Returns(i, "error", 0)
       ELSE /\ \E normalized \in Normalizations(store) :
                 /\ ui' = Commit(Rendered(
                             [ui EXCEPT
                                 !.timers = normalized,
                                 !.inGameTimeInputs =
                                     [id \in ResourceIds |->
                                         InGameTimeOr(normalized[id], <<>>)],
                                 !.savingInGameTime =
                                     [id \in ResourceIds |-> FALSE],
                                 !.refreshing = FALSE,
                                 !.loading = FALSE], TRUE))
                 /\ intervals' = IntervalsAfterSetTimers(normalized)
            /\ Returns(i, "rows", Cardinality(store))
    /\ UNCHANGED <<clientVars, engineVars, store, nextRowId, mounted,
                   fetchIntervals, started, wallClockMs, edits, ticks>>

\* Number.isNaN(parsed) ? 0 : parsed
ParsedOrZero(text) == LET parsed == ParseInt(text)
                      IN  IF parsed = NaN THEN 0 ELSE parsed.n

\* an input event is possible while the page is mounted
EditAllowed == mounted = "yes" /\ Events < MaxEvents

\* what an input event leaves alone
EditFrame ==
    /\ edits' = edits + 1
    /\ UNCHANGED <<clientVars, engineVars, store, nextRowId, mounted,
                   intervals, fetchIntervals, calls, lastFinished, started,
                   wallClockMs, ticks>>

HandleMinutesChange(id, text) ==
    /\ EditAllowed
    /\ ui' = [ui EXCEPT !.minutesToAdd[id] = ParsedOrZero(text)]
    /\ EditFrame

\* the onChange of the seconds input
HandleSecondsChange(id, text) ==
    /\ EditAllowed
    /\ ui' = [ui EXCEPT !.secondsToAdd[id] = ParsedOrZero(text)]
    /\ EditFrame

HandleInGameTimeChange(id, text) ==
    /\ EditAllowed
    /\ ui' = [ui EXCEPT !.inGameTimeInputs[id] = text]
    /\ EditFrame

\* the request handleAddMinutes sends first
AddMinutesRequest(id, now, minutes, seconds) ==
    Request("update", ResourceLabel(id),
            IsoString(NextSpawnMs(now, minutes, seconds)), Absent, Absent)

\* handleAddMinutes up to its first await; the button is disabled while
\* updating[id]
HandleAddMinutes(id) ==
    /\ mounted = "yes"
    /\ Events < MaxEvents
    /\ started' = started + 1
    /\ id \in ResourceIds => ~ui.updating[id]
    /\ LET minutes == IF id \in ResourceIds THEN ui.minutesToAdd[id]
                      ELSE defaultMinutes
           seconds == IF id \in ResourceIds THEN ui.secondsToAdd[id] ELSE 0
           rejection == AddMinutesRejection(id, minutes, seconds)
       IN  IF rejection # JsNull
           THEN /\ ui' = [ui EXCEPT !.error = rejection]
                /\ lastFinished' = Rejected("add", id, minutes, seconds, <<>>)
                /\ UNCHANGED calls
           ELSE /\ ui' = [ui EXCEPT !.error = JsNull, !.updating[id] = TRUE]
                /\ calls' = Append(calls,
                      Invocation("add", id, "update", TRUE, minutes, seconds,
                                 <<>>,
                                 AddMinutesRequest(id, wallClockMs, minutes,
                                                   seconds),
                                 wallClockMs))
                /\ UNCHANGED lastFinished
    /\ UNCHANGED <<clientVars, engineVars, store, nextRowId, mounted,
                   intervals, fetchIntervals, wallClockMs, edits, ticks>>

\* mutant: the catch block without the finally block
AddMinutesFailedWithoutFinally(u, id, message) == [u EXCEPT !.error = message]

\* the catch and finally blocks of handleAddMinutes
AddMinutesFailed(u, id, message) ==
    [u EXCEPT !.error = message, !.updating[id] = FALSE]

\* a row came back: the state changes, then the finally block
AddMinutesSucceeded(u, id, r) ==
    [AddMinutesStored(u, id, r) EXCEPT !.updating[id] = FALSE]

\* the store answers the update of handleAddMinutes and the handler resumes
AddMinutesAfterUpdate(i, outcome) ==
    /\ i \in 1..Len(calls)
    /\ calls[i].op = "add"
    /\ calls[i].pc = "update"
    /\ LET c == calls[i]
           rows == IF outcome = "error" THEN {}
                   ELSE UpdatedRows(store, c.request)
       IN  IF InsertNeeded(outcome, rows)
           THEN /\ calls' = [calls EXCEPT ![i] = GoesOnWithInsert(c, outcome)]
                /\ UNCHANGED <<store, ui, intervals, lastFinished>>
           ELSE IF outcome = "error"
           THEN /\ ui' = Commit(AddMinutesFailed(ui, c.id, UpdateFailed))
                /\ Returns(i, "error", 0)
                /\ UNCHANGED <<store, intervals>>
           ELSE /\ store' = StoreAfterUpdate(store, c.request)
                /\ \E updatedRow \in rows :
                      ui' = Commit(Rendered(
                               AddMinutesSucceeded(ui, c.id, updatedRow), TRUE))
                /\ intervals' = IntervalsAfterSetTimers(ui'.timers)
                /\ Returns(i, "rows", Cardinality(rows))
    /\ UNCHANGED <<clientVars, engineVars, nextRowId, mounted, fetchIntervals,
                   started, wallClockMs, edits, ticks>>

\* the store answers the insert of handleAddMinutes and the handler resumes
AddMinutesAfterInsert(i, outcome) ==
    /\ i \in 1..Len(calls)
    /\ calls[i].op = "add"
    /\ calls[i].pc = "insert"
    /\ LET c == calls[i]
           insertedRow == InsertedRow(c.request, nextRowId)
       IN  IF outcome = "error"
           THEN /\ ui' = Commit(AddMinutesFailed(ui, c.id, UpdateFailed))
                /\ Returns(i, "error", 0)
                /\ UNCHANGED <<store, nextRowId, intervals>>
           ELSE /\ store' = store \cup {insertedRow}
                /\ nextRowId' = nextRowId + 1
                /\ IF outcome = "rows"
                   THEN /\ ui' = Commit(Rendered(
                                   AddMinutesSucceeded(ui, c.id, insertedRow),
                                   TRUE))
                        /\ intervals' = IntervalsAfterSetTimers(ui'.timers)
                        /\ Returns(i, "rows", 1)
                   ELSE /\ ui' = Commit(AddMinutesFailed(ui, c.id,
                                                         NoDataReturned))
                        /\ Returns(i, "rows", 0)
                        /\ UNCHANGED intervals
    /\ UNCHANGED <<clientVars, engineVars, mounted, fetchIntervals, started,
                   wallClockMs, edits, ticks>>

\* the request handleSaveInGameTime sends first
SaveInGameTimeRequest(id, now, value) ==
    Request("update", ResourceLabel(id), Absent, Str(value), IsoString(now))

\* handleSaveInGameTime up to its first await; the button is disabled while
\* savingInGameTime[id]
HandleSaveInGameTime(id) ==
    /\ mounted = "yes"
    /\ Events < MaxEvents
    /\ started' = started + 1
    /\ id \in ResourceIds => ~ui.savingInGameTime[id]
    /\ LET value == IF id \in ResourceIds THEN Trim(ui.inGameTimeInputs[id])
                    ELSE <<>>
           rejection == SaveInGameTimeRejection(id, value)
       IN  IF rejection # JsNull
           THEN /\ ui' = [ui EXCEPT !.error = rejection]
                /\ lastFinished' = Rejected("save", id, 0, 0, value)
                /\ UNCHANGED calls
           ELSE /\ ui' = [ui EXCEPT !.error = JsNull,
                                    !.savingInGameTime[id] = TRUE]
                /\ calls' = Append(calls,
                      Invocation("save", id, "update", TRUE, 0, 0, value,
                                 SaveInGameTimeRequest(id, wallClockMs, value),
                                 wallClockMs))
                /\ UNCHANGED lastFinished
    /\ UNCHANGED <<clientVars, engineVars, store, nextRowId, mounted,
                   intervals, fetchIntervals, wallClockMs, edits, ticks>>

\* the catch and finally blocks of handleSaveInGameTime
SaveInGameTimeFailed(u, id, message) ==
    [u EXCEPT !.error = message, !.savingInGameTime[id] = FALSE]

\* a row came back: the state changes, then the finally block
SaveInGameTimeSucceeded(u, id, r, value) ==
    [SaveInGameTimeStored(u, id, r, value) EXCEPT
        !.savingInGameTime[id] = FALSE]

\* the store answers the update of handleSaveInGameTime and the handler
\* resumes
SaveInGameTimeAfterUpdate(i, outcome) ==
    /\ i \in 1..Len(calls)
    /\ calls[i].op = "save"
    /\ calls[i].pc = "update"
    /\ LET c == calls[i]
           rows == IF outcome = "error" THEN {}
                   ELSE UpdatedRows(store, c.request)
       IN  IF InsertNeeded(outcome, rows)
           THEN /\ calls' = [calls EXCEPT ![i] = GoesOnWithInsert(c, outcome)]
                /\ UNCHANGED <<store, ui, intervals, lastFinished>>
           ELSE IF outcome = "error"
           THEN /\ ui' = Commit(SaveInGameTimeFailed(ui, c.id, UpdateFailed))
                /\ Returns(i, "error", 0)
                /\ UNCHANGED <<store, intervals>>
           ELSE /\ store' = StoreAfterUpdate(store, c.request)
                /\ \E updatedRow \in rows :
                      ui' = Commit(Rendered(
                               SaveInGameTimeSucceeded(ui, c.id, updatedRow,
                                                       c.value), TRUE))
                /\ intervals' = IntervalsAfterSetTimers(ui'.timers)
                /\ Returns(i, "rows", Cardinality(rows))
    /\ UNCHANGED <<clientVars, engineVars, nextRowId, mounted, fetchIntervals,
                   started, wallClockMs, edits, ticks>>

\* the store answers the insert of handleSaveInGameTime and the handler
\* resumes
SaveInGameTimeAfterInsert(i, outcome) ==
    /\ i \in 1..Len(calls)
    /\ calls[i].op = "save"
    /\ calls[i].pc = "insert"
    /\ LET c == calls[i]
           insertedRow == InsertedRow(c.request, nextRowId)
       IN  IF outcome = "error"
           THEN /\ ui' = Commit(SaveInGameTimeFailed(ui, c.id, UpdateFailed))
                /\ Returns(i, "error", 0)
                /\ UNCHANGED <<store, nextRowId, intervals>>
           ELSE /\ store' = store \cup {insertedRow}
                /\ nextRowId' = nextRowId + 1
                /\ IF outcome = "rows"
                   THEN /\ ui' = Commit(Rendered(
                                   SaveInGameTimeSucceeded(ui, c.id,
                                                           insertedRow,
                                                           c.value), TRUE))
                        /\ intervals' = IntervalsAfterSetTimers(ui'.timers)
                        /\ Returns(i, "rows", 1)
                   ELSE /\ ui' = Commit(SaveInGameTimeFailed(ui, c.id,
                                                             NoDataReturned))
                        /\ Returns(i, "rows", 0)
                        /\ UNCHANGED intervals
    /\ UNCHANGED <<clientVars, engineVars, mounted, fetchIntervals, started,
                   wallClockMs, edits, ticks>>

NextPage ==
    \/ Mount
    \/ Unmount
    \/ \E step \in TickSteps : Tick(step)
    \/ \E k \in 1..(MaxEvents + 1) : RecomputeIntervalFires(k)
    \/ FetchIntervalFires
    \/ HandleRefresh
    \/ \E i \in 1..(MaxEvents + 1), outcome \in SelectOutcomes :
          FetchTimersResumes(i, outcome)
    \/ \E id \in EditedIds, text \in MinutesTexts : HandleMinutesChange(id, text)
    \/ \E id \in EditedIds, text \in SecondsTexts : HandleSecondsChange(id, text)
    \/ \E id \in EditedIds, text \in InGameTexts :
          HandleInGameTimeChange(id, text)
    \/ \E id \in HandlerIds : HandleAddMinutes(id)
    \/ \E i \in 1..(MaxEvents + 1), outcome \in UpdateOutcomes :
          AddMinutesAfterUpdate(i, outcome)
    \/ \E i \in 1..(MaxEvents + 1), outcome \in InsertOutcomes :
          AddMinutesAfterInsert(i, outcome)
    \/ \E id \in HandlerIds : HandleSaveInGameTime(id)
    \/ \E i \in 1..(MaxEvents + 1), outcome \in UpdateOutcomes :
          SaveInGameTimeAfterUpdate(i, outcome)
    \/ \E i \in 1..(MaxEvents + 1), outcome \in InsertOutcomes :
          SaveInGameTimeAfterInsert(i, outcome)

SpecPage == InitPage /\ [][NextPage]_vars

----------------------------------------------------------------------------
(* Claims on the page *)

\* two timers rows with the same reference: equal ingame_time and equal
\* ingame_time_saved_at
SameReference(a, b) ==
    /\ a.ingame_time = b.ingame_time
    /\ a.ingame_time_saved_at = b.ingame_time_saved_at

Mutations ==
    { c \in { calls[i] : i \in 1..Len(calls) } \cup {lastFinished} :
        c # NotCalled /\ c.op \in {"add", "save"} /\ c.accepted }

\* the invocation has issued its insert
InsertIssued(c) == c.pc = "insert" \/ Len(c.log) >= 2

\* the first request of the invocation, answered or not
FirstRequest(c) == IF c.log = <<>> THEN c.request ELSE c.log[1].body

\* C12: each mutation is an upsert keyed by the label.  The first request
\* of handleAddMinutes and of handleSaveInGameTime is an update filtered on
\* text = the label of the resource; an insert is issued only after that
\* update reported no error and returned zero rows, and it carries the same
\* label and body; after an update that reported an error or returned a row
\* the handler has returned without an insert.
C12_UpdateThenInsertOnlyIfEmpty ==
    \A c \in Mutations :
        /\ FirstRequest(c).kind = "update"
        /\ FirstRequest(c).label = ResourceLabel(c.id)
        /\ InsertIssued(c)
             => /\ c.log[1].outcome = "rows"
                /\ c.log[1].rows = 0
                /\ LET insert == IF Len(c.log) >= 2 THEN c.log[2].body
                                 ELSE c.request
                   IN  insert = [FirstRequest(c) EXCEPT !.kind = "insert"]
        /\ (c.log # <<>> /\ (c.log[1].outcome = "error" \/ c.log[1].rows > 0))
             => (c.pc = "done" /\ Len(c.log) = 1)

\* both handlers have each taken both paths: an insert after an empty update
\* is awaiting the store, and the last invocation returned after an update
\* that found the row
C12_Witness ==
    /\ \E c \in Mutations : c.op = "add" /\ c.pc = "insert"
    /\ lastFinished # NotCalled
    /\ lastFinished.op = "save"
    /\ lastFinished.accepted
    /\ Len(lastFinished.log) = 1
    /\ lastFinished.log[1].rows = 1

\* the rows of the table with the label
RowsOf(label) == { r \in store : r.text = label }

\* C13: mutations are single-row per key.  The table starts with at most
\* one row per resource label; after any handleAddMinutes and
\* handleSaveInGameTime invocations, overlapping ones for the same resource
\* included, it holds at most one row for each resource label.
C13_OneRowPerLabel ==
    \A label \in ResourceLabels : Cardinality(RowsOf(label)) <= 1

\* the row r as the update of the invocation c leaves it
WrittenBy(c, r) ==
    IF c.op = "save"
    THEN [r EXCEPT !.ingame_time = Str(c.value),
                   !.ingame_time_saved_at = IsoString(c.startedAt)]
    ELSE [r EXCEPT !.next_spawn =
                       IsoString(NextSpawnMs(c.startedAt, c.minutes, c.seconds))]

\* C14: the mutations write only their own fields.  In every step every
\* row of the table stays in the table with its id and text, and it is
\* changed only by the step in which the update of an invocation for its
\* label returns: handleSaveInGameTime then changes ingame_time and
\* ingame_time_saved_at and leaves next_spawn as it was, handleAddMinutes
\* changes next_spawn and leaves ingame_time and ingame_time_saved_at as they
\* were; rows of other labels are never changed.
C14_MutationsWriteOnlyTheirFields ==
    [][ \A r \in store :
          \/ r \in store'
          \/ \E i \in 1..Len(calls) :
                /\ calls[i].op \in {"add", "save"}
                /\ calls[i].pc = "update"
                /\ calls[i].request.label = r.text
                /\ calls' = Without(calls, i)
                /\ WrittenBy(calls[i], r) \in store'
                /\ Cardinality(store') = Cardinality(store) ]_vars

\* a save on the existing row of Ressources-01 has returned: the row holds
\* the new reference and its old next_spawn, and the row of Ressources-02 is
\* as it was
C14_Witness ==
    /\ lastFinished # NotCalled
    /\ lastFinished.op = "save"
    /\ lastFinished.id = "ressources-01"
    /\ Len(lastFinished.log) = 1
    /\ lastFinished.log[1].rows = 1
    /\ \E r \in store :
          /\ r.id = 1
          /\ r.ingame_time_saved_at = IsoString(lastFinished.startedAt)
          /\ r.ingame_time = Str(lastFinished.value)
          /\ r.next_spawn = IsoString(PageOpenedMs + 50 * 1000)
          /\ r \notin SeededStore
    /\ \E r \in store : r.id = 2 /\ r \in SeededStore

\* the instants the wall clock can show
ClockInstants == { PageOpenedMs + 45 * 1000 + k * 1000 : k \in 0..MaxEvents }

C17_UpdatingFlagBracketsTheHandler ==
    /\ [](mounted = "yes"
            => \A i \in 1..Len(calls) :
                  calls[i].op = "add" => ui.updating[calls[i].id])
    /\ [][ \A i \in 1..Len(calls) :
              ( /\ calls[i].op = "add"
                /\ calls' = Without(calls, i)
                /\ mounted' = "yes" )
              => ~ui'.updating[calls[i].id] ]_vars

\* a handleAddMinutes invocation has returned after an update and an insert
\* that both returned no row, and the flag is false again
C17_Witness ==
    /\ mounted = "yes"
    /\ lastFinished # NotCalled
    /\ lastFinished.op = "add"
    /\ lastFinished.accepted
    /\ Len(lastFinished.log) = 2
    /\ lastFinished.log[2].outcome = "rows"
    /\ lastFinished.log[2].rows = 0
    /\ ~ui.updating[lastFinished.id]
    /\ ui.error = NoDataReturned

\* C18: the in-flight flag of handleSaveInGameTime.  While the page is
\* mounted, savingInGameTime[id] is true for every handleSaveInGameTime
\* invocation for id that awaits the store, under any interleaving with
\* fetchTimers calls.
C18_SavingFlagWhileInFlight ==
    mounted = "yes"
      => \A i \in 1..Len(calls) :
            calls[i].op = "save" => ui.savingInGameTime[calls[i].id]

\* C19: while the page is mounted, refreshing is true whenever at least one
\* fetchTimers call awaits the store, overlapping calls included.
C19_RefreshingWhileFetching ==
    mounted = "yes"
      => ( (\E i \in 1..Len(calls) : calls[i].op = "fetch") => ui.refreshing )

\* C20: the next_spawn instant an accepted handleAddMinutes invocation writes
\* is strictly later than the instant at which the handler ran.
C20_NextSpawnAfterNow ==
    \A c \in Mutations :
        c.op = "add" => DateGetTime(FirstRequest(c).next_spawn).n > c.startedAt

----------------------------------------------------------------------------
(* Claims on the engine, continued *)

\* the phase that follows a phase in the cycle
PhaseAfter(phase) ==
    CASE phase = "Nuit" -> "Aube"
      [] phase = "Aube" -> "Jour"
      [] phase = "Jour" -> "Crepuscule"
      [] phase = "Crepuscule" -> "Nuit"

\* the real time the shortest phase lasts, in ms: dawn, 114 simulated
\* minutes of 60 simulated seconds, 72 simulated seconds per real second
ShortestPhaseMs == ((387 - 273) * 60 * 1000 * MINECRAFT_HOUR_SECONDS) \div 3600

\* two successive polls of the live clock, both with a result, less than the
\* shortest phase apart
CloseSuccessivePolls ==
    /\ prevLiveClock # NotCalled
    /\ prevLiveClock # JsNull
    /\ liveClock # NotCalled
    /\ liveClock # JsNull
    /\ instantMs - prevInstantMs.n < ShortestPhaseMs

\* C21: for a fixed valid reference, when the query instant increases by
\* less than the shortest phase, the phase deriveLiveMinecraftClock returns
\* is the phase of the previous poll or the one that follows it in the cycle
\* Nuit -> Aube -> Jour -> Crepuscule -> Nuit: no phase is skipped and none
\* comes back.
C21_PhaseFollowsTheCycle ==
    CloseSuccessivePolls
      => liveClock.phaseDetails.phase
           \in { prevLiveClock.phaseDetails.phase,
                 PhaseAfter(prevLiveClock.phaseDetails.phase) }

\* the third poll: night at the first, dawn at the second, day at the third
C21_Witness ==
    /\ CloseSuccessivePolls
    /\ polls >= 2
    /\ prevLiveClock.phaseDetails.phase = "Aube"
    /\ liveClock.phaseDetails.phase = "Jour"
    /\ instantMs > SavedAtMs

\* C25: in every non-null result of deriveLiveMinecraftClock the clock, the
\* HH:MM of the normalized seconds, is the timeLabel of its phaseDetails, the
\* HH:MM getMinecraftPhaseFromMinutes makes of the normalized minutes.
C25_ClockIsTheTimeLabel ==
    (liveClock # NotCalled /\ liveClock # JsNull)
      => liveClock.clock = liveClock.phaseDetails.timeLabel

\* a result whose simulated minutes are not whole: 64.8 minutes after the
\* reference, two polls of 27 s
C25_Witness ==
    /\ liveClock # NotCalled
    /\ liveClock # JsNull
    /\ instantMs - SavedAtMs = 2 * 27 * 1000
    /\ liveClock.clock = liveClock.phaseDetails.timeLabel
    /\ liveClock.clock # row.ingame_time.chars

----------------------------------------------------------------------------
(* Home with the texts a user can put in the forms: a session without
   refreshes, in which the 100 ms interval is left out *)

\* texts of the minutes and seconds inputs: zero, negative, sixty
MinutesFormTexts == { <<"0">>, <<"-", "1">> }
SecondsFormTexts == { <<"3", "0">>, <<"6", "0">>, <<"-", "5">> }
\* texts of the in-game time input: padded with a blank before, unpadded,
\* hour out of range, a third field, no colon
InGameFormTexts ==
    { <<" ">> \o HHMM(18, 30), <<"6", ":", "5">>, HHMM(24, 0),
      HHMM(6, 0) \o <<":", "3", "0">>, <<"0", "6", "3", "0">> }

NextForms ==
    \/ Mount
    \/ Unmount
    \/ \E step \in TickSteps : Tick(step)
    \/ \E i \in 1..(MaxEvents + 1), outcome \in SelectOutcomes :
          FetchTimersResumes(i, outcome)
    \/ \E id \in EditedIds, text \in MinutesFormTexts :
          HandleMinutesChange(id, text)
    \/ \E id \in EditedIds, text \in SecondsFormTexts :
          HandleSecondsChange(id, text)
    \/ \E id \in EditedIds, text \in InGameFormTexts :
          HandleInGameTimeChange(id, text)
    \/ \E id \in HandlerIds : HandleAddMinutes(id)
    \/ \E i \in 1..(MaxEvents + 1), outcome \in UpdateOutcomes :
          AddMinutesAfterUpdate(i, outcome)
    \/ \E i \in 1..(MaxEvents + 1), outcome \in InsertOutcomes :
          AddMinutesAfterInsert(i, outcome)
    \/ \E id \in HandlerIds : HandleSaveInGameTime(id)
    \/ \E i \in 1..(MaxEvents + 1), outcome \in UpdateOutcomes :
          SaveInGameTimeAfterUpdate(i, outcome)
    \/ \E i \in 1..(MaxEvents + 1), outcome \in InsertOutcomes :
          SaveInGameTimeAfterInsert(i, outcome)

SpecForms == InitPage /\ [][NextForms]_vars

----------------------------------------------------------------------------
(* Claims on the page, continued *)

\* the rows of a table whose text is the label of a resource
RowsLabelled(st, id) == { r \in st : r.text = ResourceLabel(id) }

\* the state after the select of fetchTimers reported an error
FetchErrorLeaves(u, v) ==
    /\ v.timers = u.timers
    /\ v.inGameTimeInputs = u.inGameTimeInputs
    /\ v.savingInGameTime = u.savingInGameTime
    /\ v.error.kind = "message"
    /\ ~v.refreshing
    /\ ~v.loading

\* the state after the select of fetchTimers returned the rows of st
FetchSuccessLeaves(st, v) ==
    \A id \in ResourceIds :
        IF RowsLabelled(st, id) = {}
        THEN /\ v.timers[id] = Undefined
             /\ v.inGameTimeInputs[id] = <<>>
        ELSE /\ v.timers[id] \in RowsLabelled(st, id)
             /\ v.inGameTimeInputs[id] =
                   IF v.timers[id].ingame_time.kind = "string"
                   THEN v.timers[id].ingame_time.chars
                   ELSE <<>>

\* C23: in the step in which fetchTimers resumes on a mounted page, when the
\* select reported an error timers, inGameTimeInputs and savingInGameTime
\* are as before, error is a message and refreshing and loading are false;
\* when it returned rows, timers has an entry exactly for the resources
\* whose label is the text of a returned row, that entry is such a row, and
\* inGameTimeInputs[id] is the ingame_time of the entry, or the empty string
\* when it is null or there is no entry.
C23_FetchTimersOutcomes ==
    [][ \A i \in 1..Len(calls) :
          (/\ calls[i].op = "fetch"
           /\ calls' = Without(calls, i)
           /\ mounted = "yes")
            => IF lastFinished'.log[1].outcome = "error"
               THEN FetchErrorLeaves(ui, ui')
               ELSE FetchSuccessLeaves(store, ui') ]_vars

\* a fetch has returned rows after the user typed a time for construction-01,
\* which has no row: timers has the rows of the two seeded resources and the
\* typed text is gone
C23_Witness ==
    /\ mounted = "yes"
    /\ lastFinished # NotCalled
    /\ lastFinished.op = "fetch"
    /\ lastFinished.log[1].outcome = "rows"
    /\ edits = 1
    /\ calls = <<>>
    /\ ui.minutesToAdd["construction-01"] = defaultMinutes
    /\ ui.secondsToAdd["construction-01"] = 0
    /\ ui.timers["ressources-01"] \in SeededStore
    /\ ui.timers["construction-01"] = Undefined
    /\ ui.inGameTimeInputs["ressources-01"] = HHMM(6, 0)
    /\ ui.inGameTimeInputs["construction-01"] = <<>>
    /\ ~ui.loading

\* the number a field of a saved time starts with
LeadingNumber(field) == DigitsValue(DigitPrefix(SkipWhitespace(field)))

\* a saved time zero-padded: its hour and minute on two digits each
PaddedTime(value) ==
    LET fields == SplitColon(value)
    IN  HHMM(LeadingNumber(fields[1]), LeadingNumber(fields[2]))

\* query instants around the instant a time was saved at: a minute before,
\* the instant, 1 ms, 50 s and a little more than a day after
QueryInstants(savedAt) ==
    { savedAt - 60 * 1000, savedAt, savedAt + 1, savedAt + 50 * 1000,
      savedAt + MINECRAFT_CYCLE_SECONDS * 1000 + 1 }

\* C22: every in-game time handleSaveInGameTime accepts is a reference the
\* engine accepts.  In the step in which a save returns with a row on a
\* mounted page, timers[id] holds the saved ingame_time and
\* ingame_time_saved_at, deriveLiveMinecraftClock on it is non-null at query
\* instants before, at and after the saved instant, and at the saved instant
\* its clock is the saved time zero-padded.
C22_AcceptedTimeIsAReference ==
    [][ \A i \in 1..Len(calls) :
          (/\ calls[i].op = "save"
           /\ calls' = Without(calls, i)
           /\ mounted = "yes"
           /\ lastFinished'.log[Len(lastFinished'.log)].outcome = "rows"
           /\ lastFinished'.log[Len(lastFinished'.log)].rows > 0)
            => LET c == calls[i]
                   r == ui'.timers[c.id]
               IN  /\ r # Undefined
                   /\ r.ingame_time = Str(c.value)
                   /\ r.ingame_time_saved_at = IsoString(c.startedAt)
                   /\ \A now \in QueryInstants(c.startedAt) :
                         deriveLiveMinecraftClock(r, now) # JsNull
                   /\ deriveLiveMinecraftClock(r, c.startedAt).clock
                         = PaddedTime(c.value) ]_vars

\* the save of the unpadded time 6:5 for construction-01 has returned with
\* the inserted row: the engine reads it as 06:05
C22_Witness ==
    /\ mounted = "yes"
    /\ lastFinished # NotCalled
    /\ lastFinished.op = "save"
    /\ lastFinished.id = "construction-01"
    /\ lastFinished.value = <<"6", ":", "5">>
    /\ Len(lastFinished.log) = 2
    /\ lastFinished.log[2].outcome = "rows"
    /\ lastFinished.log[2].rows > 0
    /\ ui.timers["construction-01"] # Undefined
    /\ ui.timers["construction-01"].ingame_time = Str(<<"6", ":", "5">>)
    /\ deriveLiveMinecraftClock(ui.timers["construction-01"],
                                lastFinished.startedAt) # JsNull
    /\ deriveLiveMinecraftClock(ui.timers["construction-01"],
                                lastFinished.startedAt).clock = HHMM(6, 5)

\* the inputs handleAddMinutes rejects
InvalidAddInput(id, minutes, seconds) ==
    \/ id \notin ResourceIds
    \/ minutes < 0
    \/ seconds \notin 0..59
    \/ minutes * 60 + seconds <= 0

\* the invocation a step starts: the one it appends to calls, or the one
\* that returned at once
StartedInvocation(cs, ds, last) ==
    IF Len(ds) > Len(cs) THEN ds[Len(ds)] ELSE last

============================================================================
